---- MODULE Spec2Model ----
(***************************************************************************)
(* State-machine model of refuge_certificate_gen.py: main, load_config,    *)
(* process_single_test, process_certificates (one step per spreadsheet     *)
(* row) and add_text_overlay.                                              *)
(*                                                                         *)
(* Strings are sequences of tokens.  Text that the program inspects or     *)
(* builds character by character (names, e-mails, digits) is a sequence    *)
(* of one-character tokens; literals the program only concatenates         *)
(* ("January", ".pdf", a folder name) are single tokens.                   *)
(***************************************************************************)
EXTENDS Integers, Sequences, FiniteSets, TLC

\* Bounds of the model.
MaxRows == 3
MaxNamedRows == 2
MaxLen == 2
MaxFields == 2

VARIABLES
    configFile,     \* environment: the YAML document named on the command line
    excelFile,      \* environment: the spreadsheet at excel_path
    templateOK,     \* environment: fitz.open(template_pdf_path) succeeds
    today,          \* environment: datetime.now() of this run
    pc,             \* position of the run
    config,         \* main: the loaded configuration object
    df,             \* process_certificates: the table read from the spreadsheet
    pos,            \* number of rows taken from list(df.iterrows())
    index,          \* loop variable `index` (label of the row last taken)
    field_configs,  \* config.get('fields', {}), in insertion order
    field_values,   \* resolved field set of the row last taken
    output_path,    \* output path passed to add_text_overlay
    attempts,       \* rendering attempts of the last add_text_overlay call
    files,          \* the certificates on disk: path -> stamps of the page
    stdout,         \* the modelled lines printed so far
    exitCode,       \* process exit status once pc = "exited"
    error           \* the exception that ended the run or call ("" when none)

vars == <<configFile, excelFile, templateOK, today, pc, config, df, pos, index,
          field_configs, field_values, output_path, attempts, files, stdout,
          exitCode, error>>

env == <<configFile, excelFile, templateOK, today>>

Range(s) == {s[i] : i \in DOMAIN s}

(***************************************************************************)
(* Text and numbers.                                                       *)
(***************************************************************************)
Digits == <<"0", "1", "2", "3", "4", "5", "6", "7", "8", "9">>

Letters == {"a", "b", "c", "d", "e", "f", "g", "h", "i", "j", "k", "l", "m",
            "n", "o", "p", "q", "r", "s", "t", "u", "v", "w", "x", "y", "z"}

IsDigit(c) == c \in Range(Digits)

DigitVal(c) == CHOOSE n \in 0..9 : Digits[n + 1] = c

\* str.isalnum() of one character.
IsAlnum(c) == c \in Letters \/ IsDigit(c)

\* Decimal text of a non-negative integer: str(n), f"{n}", %Y, %-d.
RECURSIVE IntStr(_)
IntStr(n) == IF n < 10 THEN <<Digits[n + 1]>> ELSE IntStr(n \div 10) \o <<Digits[(n % 10) + 1]>>

\* Zero-padded two-digit text: %d, %m.
Pad2(n) == IF n < 10 THEN <<"0">> \o IntStr(n) ELSE IntStr(n)

\* Integer value of a sequence of digit characters.
RECURSIVE Num(_)
Num(s) == IF s = <<>> THEN 0 ELSE 10 * Num(SubSeq(s, 1, Len(s) - 1)) + DigitVal(s[Len(s)])

MonthName == <<"January", "February", "March", "April", "May", "June", "July",
               "August", "September", "October", "November", "December">>

\* One strftime directive or literal of a format.
Directive(d, t) ==
    CASE t = "%B" -> <<MonthName[d.month]>>
      [] t = "%d" -> Pad2(d.day)
      [] t = "%-d" -> IntStr(d.day)
      [] t = "%m" -> Pad2(d.month)
      [] t = "%Y" -> IntStr(d.year)
      [] OTHER -> <<t>>

\* datetime.strftime over a format given as its directives and literals.
RECURSIVE Strftime(_, _)
Strftime(d, fmt) == IF fmt = <<>> THEN <<>> ELSE Directive(d, Head(fmt)) \o Strftime(d, Tail(fmt))

\* "%B %d %Y": today's date, the fallback of process_certificates.
FmtToday == <<"%B", " ", "%d", " ", "%Y">>

\* "%B %d, %Y.": a cell that already is a date/time.
FmtTypedNoPeriod == <<"%B", " ", "%d", ",", " ", "%Y">>
FmtTyped == <<"%B", " ", "%d", ",", " ", "%Y", ".">>

\* "%B %-d, %Y.": a cell parsed by pd.to_datetime.
FmtParsed == <<"%B", " ", "%-d", ",", " ", "%Y", ".">>

\* "%B %d, %Y": today's date in process_single_test.
FmtTest == <<"%B", " ", "%d", ",", " ", "%Y">>

\* str(pd.Timestamp) of a date without time of day.
FmtTimestampStr == <<"%Y", "-", "%m", "-", "%d", " ", "0", "0", ":", "0", "0", ":", "0", "0">>

(***************************************************************************)
(* Spreadsheet cells.                                                      *)
(***************************************************************************)
NaN == [type |-> "nan"]
StrCell(s) == [type |-> "str", s |-> s]
TsCell(d) == [type |-> "ts", d |-> d]

\* pd.notna(cell)
NotNa(cell) == cell.type # "nan"

\* str(cell)
PyStr(cell) ==
    CASE cell.type = "str" -> cell.s
      [] cell.type = "ts" -> Strftime(cell.d, FmtTimestampStr)
      [] OTHER -> <<"n", "a", "n">>

Epoch == [year |-> 1970, month |-> 1, day |-> 1]

\* Days of each month of a common year.
DaysInMonth == <<31, 28, 31, 30, 31, 30, 31, 31, 30, 31, 30, 31>>

\* A text of the form YYYY-MM-DD naming a month and a day of the calendar.
IsIsoDate(s) ==
    /\ Len(s) = 10
    /\ s[5] = "-" /\ s[8] = "-"
    /\ \A i \in {1, 2, 3, 4, 6, 7, 9, 10} : IsDigit(s[i])
    /\ Num(SubSeq(s, 6, 7)) \in 1..12
    /\ Num(SubSeq(s, 9, 10)) \in 1..DaysInMonth[Num(SubSeq(s, 6, 7))]

\* pd.to_datetime(cell) for a text cell: a text of the form YYYY-MM-DD parses,
\* a text that names no date raises (ok is FALSE).
ToDatetime(cell) ==
    CASE cell.type = "str" /\ IsIsoDate(cell.s) ->
            [ok |-> TRUE,
             d |-> [year |-> Num(SubSeq(cell.s, 1, 4)),
                    month |-> Num(SubSeq(cell.s, 6, 7)),
                    day |-> Num(SubSeq(cell.s, 9, 10))]]
      [] OTHER -> [ok |-> FALSE, d |-> Epoch]

(***************************************************************************)
(* Configuration.                                                          *)
(***************************************************************************)
\* dict.get(key, default)
Get(d, key, default) == IF key \in DOMAIN d THEN d[key] ELSE default

TestModeOff(d) == FALSE
TestMode(d) == Get(d, "test_mode", FALSE)

OutputFolder(d) == Get(d, "output_folder", "completed_certificates")

\* os.path.join(output_folder, output_filename)
PathJoin(folder, filename) == <<folder, "/">> \o filename

FieldNamesOf(fc) == {fc[i].name : i \in DOMAIN fc}

\* os.path.exists(font_path): the font files present on disk.
FontsOnDisk == {"custom.ttf"}

(***************************************************************************)
(* The field resolver of process_certificates.                            *)
(***************************************************************************)
\* `excel_column and excel_column in row`
InRow(excel_column, row) == excel_column # "" /\ excel_column \in DOMAIN row

\* The value of a present, non-null `date` cell.
DateValue(cell) ==
    IF cell.type = "ts"
    THEN Strftime(cell.d, FmtTyped)
    ELSE LET date_value == ToDatetime(cell)
         IN IF date_value.ok THEN Strftime(date_value.d, FmtParsed) ELSE PyStr(cell)

\* The value resolved for a field whose column is in the row.
MappedValue(field_name, cell) ==
    IF field_name = "date" /\ NotNa(cell)
    THEN DateValue(cell)
    ELSE IF NotNa(cell) THEN PyStr(cell) ELSE <<>>

\* field_values after the loop over field_mappings.
ResolveFields(row, field_mappings, fc, formatted_today) ==
    LET resolved == {f \in DOMAIN field_mappings :
                        \/ InRow(field_mappings[f], row)
                        \/ (f = "date" /\ f \in FieldNamesOf(fc))}
    IN [f \in resolved |->
            IF InRow(field_mappings[f], row)
            THEN MappedValue(f, row[field_mappings[f]])
            ELSE formatted_today]

(***************************************************************************)
(* The output filename of process_certificates.                           *)
(***************************************************************************)
PersonName(fv, name_field, idx) ==
    IF name_field \in DOMAIN fv /\ fv[name_field] # <<>>
    THEN fv[name_field]
    ELSE <<"p", "e", "r", "s", "o", "n", "_">> \o IntStr(idx)

\* safe_name: computed by the program, and not used for the filename.
SafeName(person_name) == [i \in 1..Len(person_name) |-> IF IsAlnum(person_name[i]) THEN person_name[i] ELSE "_"]

OutputFilenameNoName(person_name, email) == <<"_">> \o email \o <<".pdf">>
OutputFilename(person_name, email) == person_name \o <<"_">> \o email \o <<".pdf">>

\* The row the loop takes at position p of list(df.iterrows()).
RowAt(table, p) == table.rows[p + 1]

(***************************************************************************)
(* add_text_overlay.                                                       *)
(***************************************************************************)
Attempt(field_name, text, method, ok) == [field |-> field_name, text |-> text, method |-> method, ok |-> ok]

\* What is on the page: the attempts that succeeded.
IsOk(a) == a.ok
Stamps(att) == SelectSeq(att, IsOk)

\* The two `continue` tests at the top of the field loop.
SkipFieldValueOnly(field_name, fv) == field_name \notin DOMAIN fv
SkipField(field_name, fv) == field_name \notin DOMAIN fv \/ fv[field_name] = <<>>

\* `if font_path and os.path.exists(font_path)`
HasCustomFont(cfg) == cfg.font # "" /\ cfg.font \in FontsOnDisk

\* `if not success` before the direct font-file insert.
TryDirect(success) == ~success

\* `if not success` before the default-font insert.
TryDefaultAlways(success) == TRUE
TryDefault(success) == ~success

\* The custom-font block for one field: every way it can end, as the attempts
\* made and the value of `success`.  Both methods run inside try/except.
CustomFontOutcomes(field_name, text) ==
    LET reportlab == {[att |-> <<Attempt(field_name, text, "reportlab", ok)>>, success |-> ok] : ok \in BOOLEAN}
    IN UNION {IF TryDirect(r.success)
              THEN {[att |-> r.att \o <<Attempt(field_name, text, "fontfile", ok)>>,
                     success |-> r.success \/ ok] : ok \in BOOLEAN}
              ELSE {r} : r \in reportlab}

\* The loop over field_configs from position i on: every way it can end, as the
\* attempts made and the exception that left the loop ("" when it ran through).
\* The default-font insert is not inside a try block.
RECURSIVE FieldLoop(_, _, _, _)
FieldLoop(i, fv, fc, att) ==
    IF i > Len(fc)
    THEN {[attempts |-> att, error |-> ""]}
    ELSE LET field_name == fc[i].name
         IN IF SkipField(field_name, fv)
            THEN FieldLoop(i + 1, fv, fc, att)
            ELSE LET text == fv[field_name]
                     custom == IF HasCustomFont(fc[i].config)
                               THEN CustomFontOutcomes(field_name, text)
                               ELSE {[att |-> <<>>, success |-> FALSE]}
                 IN UNION {IF TryDefault(c.success)
                           THEN FieldLoop(i + 1, fv, fc,
                                          att \o c.att \o <<Attempt(field_name, text, "default", TRUE)>>)
                                \cup {[attempts |-> att \o c.att \o <<Attempt(field_name, text, "default", FALSE)>>,
                                       error |-> "InsertTextError"]}
                           ELSE FieldLoop(i + 1, fv, fc, att \o c.att) : c \in custom}

\* add_text_overlay as a whole: every way the call can end.  saved tells whether
\* doc.save wrote output_pdf_path.
AddTextOverlay(template_ok, fv, fc) ==
    IF ~template_ok
    THEN {[attempts |-> <<>>, error |-> "OpenError", saved |-> FALSE]}
    ELSE UNION {IF r.error # ""
                THEN {[attempts |-> r.attempts, error |-> r.error, saved |-> FALSE]}
                ELSE {[attempts |-> r.attempts, error |-> "", saved |-> TRUE],
                      [attempts |-> r.attempts, error |-> "SaveError", saved |-> FALSE]}
                : r \in FieldLoop(1, fv, fc, <<>>)}

\* The file system after doc.save(output_pdf_path).
Save(fs, path, page) == [p \in DOMAIN fs \cup {path} |-> IF p = path THEN page ELSE fs[p]]

\* print(...)
Line(msg, arg) == [msg |-> msg, arg |-> arg]

(***************************************************************************)
(* The run: main, load_config, process_single_test, process_certificates.  *)
(***************************************************************************)
NoConfig == [kind |-> "unset"]
NoTable == [columns |-> {}, rows |-> <<>>]

\* sys.exit(code), or an uncaught exception ending the interpreter with status 1.
Exit(code, err) ==
    /\ pc' = "exited"
    /\ exitCode' = code
    /\ error' = err

\* The statuses of the two sys.exit calls.
ConfigErrorStatus == 1
ExcelErrorStatusZero == 1 - 1
ExcelErrorStatus == 1

\* The call of add_text_overlay stands in no try block: whatever it raises
\* leaves the caller too.
PropagatesNever(err) == FALSE
Propagates(err) == err # ""

\* load_config: the document is opened and parsed, or the run exits with 1.
LoadConfig ==
    /\ pc = "start"
    /\ IF configFile.readable
       THEN /\ config' = configFile.doc
            /\ stdout' = Append(stdout, Line("Loaded configuration from", <<>>))
            /\ pc' = "loaded"
            /\ UNCHANGED <<exitCode, error>>
       ELSE /\ stdout' = Append(stdout, Line("Error loading configuration from", <<>>))
            /\ Exit(ConfigErrorStatus, "SystemExit")
            /\ UNCHANGED config
    /\ UNCHANGED <<env, df, pos, index, field_configs, field_values, output_path, attempts, files>>

\* main: config.get on a document that did not parse to a mapping.
MainNotAMapping ==
    /\ pc = "loaded"
    /\ config.kind # "dict"
    /\ Exit(1, "AttributeError")
    /\ UNCHANGED <<env, config, df, pos, index, field_configs, field_values, output_path, attempts, files, stdout>>

\* f"Test {field_name}" for every configured field, today's date for `date`.
TestValues(fc, now) ==
    [f \in FieldNamesOf(fc) |-> IF f = "date" THEN Strftime(now, FmtTest) ELSE <<"Test", " ", f>>]

TestPath(d) == PathJoin(OutputFolder(d), <<"test_certificate.pdf">>)

\* main with test_mode set: process_single_test as a whole, then main returns.
ProcessSingleTest ==
    /\ pc = "loaded"
    /\ config.kind = "dict"
    /\ TestMode(config.d)
    /\ LET fc == Get(config.d, "fields", <<>>)
           fv == TestValues(fc, today)
           path == TestPath(config.d)
           out0 == Append(stdout, Line("Running in test mode with placeholder data", <<>>))
       IN /\ field_configs' = fc
          /\ IF ~templateOK
             THEN \* debug_pdf_info raises before any value is built
                  /\ Exit(1, "OpenError")
                  /\ stdout' = out0
                  /\ UNCHANGED <<field_values, output_path, attempts, files>>
             ELSE \E r \in AddTextOverlay(templateOK, fv, fc) :
                  /\ field_values' = fv
                  /\ output_path' = path
                  /\ attempts' = r.attempts
                  /\ IF ~Propagates(r.error)
                     THEN /\ files' = Save(files, path, Stamps(r.attempts))
                          /\ stdout' = out0 \o <<Line("Saved modified PDF to", path),
                                                 Line("Test certificate created at", path)>>
                          /\ Exit(0, "")
                     ELSE /\ stdout' = out0
                          /\ Exit(1, r.error)
                          /\ UNCHANGED files
    /\ UNCHANGED <<env, config, df, pos, index>>

\* main without test_mode: process_certificates up to its row loop.
ProcessCertificatesStart ==
    /\ pc = "loaded"
    /\ config.kind = "dict"
    /\ ~TestMode(config.d)
    /\ field_configs' = Get(config.d, "fields", <<>>)
    /\ LET out0 == Append(stdout, Line("Processing certificates from Excel data", <<>>))
       IN IF ~templateOK
          THEN \* debug_pdf_info raises
               /\ Exit(1, "OpenError")
               /\ stdout' = out0
               /\ UNCHANGED df
          ELSE IF ~excelFile.readable
          THEN /\ stdout' = Append(out0, Line("Error reading Excel file", <<>>))
               /\ Exit(ExcelErrorStatus, "SystemExit")
               /\ UNCHANGED df
          ELSE /\ df' = excelFile.table
               /\ stdout' = Append(out0, Line("Successfully read Excel file", <<>>))
               /\ pc' = "rows"
               /\ UNCHANGED <<exitCode, error>>
    /\ UNCHANGED <<env, config, pos, index, field_values, output_path, attempts, files>>

\* One iteration of `for index, row in list(df.iterrows())`.
ProcessRow ==
    /\ pc = "rows"
    /\ pos < Len(df.rows)
    /\ pos' = pos + 1
    /\ index' = pos
    /\ LET row == RowAt(df, pos)
           fv == ResolveFields(row, Get(config.d, "field_mappings", <<>>), field_configs,
                               Strftime(today, FmtToday))
           person_name == PersonName(fv, Get(config.d, "name_field", "full_name"), pos)
       IN /\ field_values' = fv
          /\ IF "email" \notin DOMAIN fv
             THEN \* field_values['email'] raises KeyError
                  /\ Exit(1, "KeyError")
                  /\ UNCHANGED <<output_path, attempts, files, stdout>>
             ELSE LET path == PathJoin(OutputFolder(config.d), OutputFilename(person_name, fv["email"]))
                  IN \E r \in AddTextOverlay(templateOK, fv, field_configs) :
                       /\ output_path' = path
                       /\ attempts' = r.attempts
                       /\ IF ~Propagates(r.error)
                          THEN /\ files' = Save(files, path, Stamps(r.attempts))
                               /\ stdout' = Append(stdout, Line("Saved modified PDF to", path))
                               /\ UNCHANGED <<pc, exitCode, error>>
                          ELSE /\ Exit(1, r.error)
                               /\ UNCHANGED <<files, stdout>>
    /\ UNCHANGED <<env, config, df, field_configs>>

\* The loop is exhausted: process_certificates and main return.
ProcessCertificatesEnd ==
    /\ pc = "rows"
    /\ pos = Len(df.rows)
    /\ stdout' = Append(stdout, Line("Completed processing", IntStr(Len(df.rows))))
    /\ Exit(0, "")
    /\ UNCHANGED <<env, config, df, pos, index, field_configs, field_values, output_path, attempts, files>>

Next ==
    \/ LoadConfig
    \/ MainNotAMapping
    \/ ProcessSingleTest
    \/ ProcessCertificatesStart
    \/ ProcessRow
    \/ ProcessCertificatesEnd

\* A direct call of add_text_overlay with the arguments held in the state.
CallAddTextOverlay ==
    /\ pc = "add_text_overlay"
    /\ \E r \in AddTextOverlay(templateOK, field_values, field_configs) :
         /\ attempts' = r.attempts
         /\ error' = r.error
         /\ IF r.saved
            THEN /\ files' = Save(files, output_path, Stamps(r.attempts))
                 /\ stdout' = Append(stdout, Line("Saved modified PDF to", output_path))
            ELSE UNCHANGED <<files, stdout>>
    /\ pc' = "returned"
    /\ UNCHANGED <<env, config, df, pos, index, field_configs, field_values, output_path, exitCode>>

NextOverlay == CallAddTextOverlay

(***************************************************************************)
(* Inputs.                                                                 *)
(***************************************************************************)
FieldNames == {"full_name", "email", "date"}

ColumnOf == [full_name |-> "Name", email |-> "Email", date |-> "Date"]

NoFont == [font |-> ""]

\* The ordered `fields` mapping with the given names, no custom font.
PlainFields(names) == [i \in 1..Len(names) |-> [name |-> names[i], config |-> NoFont]]

\* field_mappings for a set of fields.
Mappings(fs) == [f \in fs |-> ColumnOf[f]]

ConfigDict(d) == [kind |-> "dict", d |-> d]

\* yaml.safe_load of an empty document.
ConfigNone == [kind |-> "none", d |-> <<>>]

\* The mappings a configuration document can hold, test_mode present or absent.
ConfigDicts(fieldLists, mappingSets) ==
    {ConfigDict([fields |-> PlainFields(fl), field_mappings |-> Mappings(ms)]) :
        fl \in fieldLists, ms \in mappingSets}
    \cup {ConfigDict([test_mode |-> t, fields |-> PlainFields(fl), field_mappings |-> Mappings(ms)]) :
        t \in BOOLEAN, fl \in fieldLists, ms \in mappingSets}

ConfigFiles(dicts) ==
    {[readable |-> FALSE, doc |-> ConfigNone], [readable |-> TRUE, doc |-> ConfigNone]}
    \cup {[readable |-> TRUE, doc |-> c] : c \in dicts}

\* All rows over the given columns.
Rows(columns, nameCells, emailCells, dateCells) ==
    {[c \in columns |-> CASE c = "Name" -> n [] c = "Email" -> e [] OTHER -> d] :
        n \in nameCells, e \in emailCells, d \in dateCells}

\* The spreadsheet is unreadable, or holds a table of at most maxRows rows.
ExcelFileIn(columnSets, maxRows, nameCells, emailCells, dateCells) ==
    \/ excelFile = [readable |-> FALSE, table |-> NoTable]
    \/ \E cols \in columnSets, n \in 0..maxRows :
          \E rs \in [1..n -> Rows(cols, nameCells, emailCells, dateCells)] :
             excelFile = [readable |-> TRUE, table |-> [columns |-> cols, rows |-> rs]]

\* All texts of at most n characters over an alphabet.
RECURSIVE Texts(_, _)
Texts(alphabet, n) ==
    IF n = 0 THEN {<<>>}
    ELSE LET shorter == Texts(alphabet, n - 1)
         IN shorter \cup {Append(s, c) : s \in shorter, c \in alphabet}

Today == [year |-> 2026, month |-> 11, day |-> 3]
ADate == [year |-> 2024, month |-> 1, day |-> 5]

AllColumns == {"Name", "Email", "Date"}

\* What the program state is before main runs.
InitProgram ==
    /\ pc = "start"
    /\ config = NoConfig
    /\ df = NoTable
    /\ pos = 0
    /\ index = 0
    /\ field_configs = <<>>
    /\ field_values = <<>>
    /\ output_path = <<>>
    /\ attempts = <<>>
    /\ files = <<>>
    /\ stdout = <<>>
    /\ exitCode = 0
    /\ error = ""

\* Runs over every kind of configuration and of `date` cell.
DateCells == {NaN, TsCell(ADate), StrCell(<<"2", "0", "2", "4", "-", "0", "1", "-", "0", "5">>), StrCell(<<"t", "b", "d">>)}

Init ==
    /\ InitProgram
    /\ configFile \in ConfigFiles(ConfigDicts({<<"full_name", "email", "date">>, <<"full_name">>},
                                              {FieldNames, FieldNames \ {"email"}, FieldNames \ {"date"}}))
    /\ ExcelFileIn({AllColumns, AllColumns \ {"Email"}, AllColumns \ {"Date"}}, MaxRows,
                   {StrCell(<<"a", " ", "b">>)}, {StrCell(<<"e", "@", "x">>)}, DateCells)
    /\ templateOK \in BOOLEAN
    /\ today = Today

Spec == Init /\ [][Next]_vars

\* Runs over names and e-mails of every shape.
NameCells == {NaN} \cup {StrCell(s) : s \in Texts({"a", "_"}, MaxLen)}
EmailCells == {StrCell(<<"e">>), StrCell(<<"_", "e">>)}

\* The configuration of the runs over names: test_mode absent, one field configured.
NamesConfig == [readable |-> TRUE, doc |-> ConfigDict([fields |-> PlainFields(<<"full_name">>), field_mappings |-> Mappings(FieldNames)])]

InitNames ==
    /\ InitProgram
    /\ \/ /\ configFile = NamesConfig
          /\ ExcelFileIn({AllColumns}, MaxNamedRows, NameCells, EmailCells, {NaN})
       \/ /\ configFile \in ConfigFiles({ConfigDict([test_mode |-> TRUE, fields |-> PlainFields(<<"full_name">>)])})
          /\ excelFile = [readable |-> FALSE, table |-> NoTable]
    /\ templateOK = TRUE
    /\ today = Today

SpecNames == InitNames /\ [][Next]_vars

\* Direct calls of add_text_overlay over every shape of its arguments.
FontChoices == {"", "custom.ttf", "missing.ttf"}

\* Ordered `fields` mappings of at most n distinct fields, each with a font choice.
RECURSIVE FieldConfigs(_)
FieldConfigs(n) ==
    IF n = 0 THEN {<<>>}
    ELSE LET shorter == FieldConfigs(n - 1)
         IN shorter \cup {Append(fc, [name |-> f, config |-> [font |-> fnt]]) :
                            fc \in {s \in shorter : Len(s) = n - 1},
                            f \in FieldNames, fnt \in FontChoices}

DistinctNames(fc) == \A i, j \in DOMAIN fc : fc[i].name = fc[j].name => i = j

FieldValueSets == UNION {[fs -> {<<>>, <<"v">>}] : fs \in SUBSET FieldNames}

InitOverlay ==
    /\ pc = "add_text_overlay"
    /\ configFile = [readable |-> TRUE, doc |-> ConfigNone]
    /\ excelFile = [readable |-> FALSE, table |-> NoTable]
    /\ templateOK \in BOOLEAN
    /\ today = Today
    /\ config = NoConfig
    /\ df = NoTable
    /\ pos = 0
    /\ index = 0
    /\ field_configs \in {fc \in FieldConfigs(MaxFields) : DistinctNames(fc)}
    /\ field_values \in FieldValueSets
    /\ output_path = <<"completed_certificates", "/", "out.pdf">>
    /\ attempts = <<>>
    /\ files = <<>>
    /\ stdout = <<>>
    /\ exitCode = 0
    /\ error = ""

SpecOverlay == InitOverlay /\ [][NextOverlay]_vars

(***************************************************************************)
(* Vocabulary of the properties.                                           *)
(***************************************************************************)
\* The configuration document parsed to a mapping.
ConfigIsMapping == configFile.readable /\ configFile.doc.kind = "dict"

\* The configuration document sets test_mode to true.
ConfiguredTestMode == ConfigIsMapping /\ "test_mode" \in DOMAIN configFile.doc.d /\ configFile.doc.d["test_mode"]

\* The run is in normal mode (test_mode false or absent).
ConfiguredNormalMode == ConfigIsMapping /\ ~ConfiguredTestMode

\* A row has been taken by the loop of process_certificates.
RowTaken == ConfiguredNormalMode /\ pc \in {"rows", "exited"} /\ pos > 0

\* The row last taken was processed to the end: its certificate is saved.
RowDone == RowTaken /\ error = ""

\* The row last taken, read from the table by its position.
LastRow == df.rows[pos]

ConfiguredMappings == configFile.doc.d["field_mappings"]

ConfiguredFields == {configFile.doc.d["fields"][i].name : i \in DOMAIN configFile.doc.d["fields"]}

\* The `date` field is mapped to a column of the row last taken.
DateColumnPresent == "date" \in DOMAIN ConfiguredMappings /\ ConfiguredMappings["date"] \in DOMAIN LastRow

LastDateCell == LastRow[ConfiguredMappings["date"]]

\* The paths of the "Saved modified PDF to" lines, in the order printed.
IsSavedLine(l) == l.msg = "Saved modified PDF to"
SavedPaths == [i \in 1..Len(SelectSeq(stdout, IsSavedLine)) |-> SelectSeq(stdout, IsSavedLine)[i].arg]

Printed(msg) == \E i \in DOMAIN stdout : stdout[i].msg = msg

CertificateFolder == "completed_certificates"

\* Full month name, space, one or two day digits, comma, space, four year
\* digits, period.
IsLongDate(s) ==
    \E k \in {1, 2} :
        /\ Len(s) = k + 9
        /\ s[1] \in Range(MonthName)
        /\ s[2] = " "
        /\ \A i \in 3..(2 + k) : IsDigit(s[i])
        /\ s[3 + k] = "," /\ s[4 + k] = " "
        /\ \A i \in (5 + k)..(8 + k) : IsDigit(s[i])
        /\ s[9 + k] = "."

\* The long date s names the date d.
LongDateNames(s, d) ==
    /\ s[1] = MonthName[d.month]
    /\ Num(SubSeq(s, 3, Len(s) - 7)) = d.day
    /\ Num(SubSeq(s, Len(s) - 4, Len(s) - 1)) = d.year

(***************************************************************************)
(* C1.  In normal mode the output filename of every processed row is the   *)
(* name with every non-alphanumeric character replaced by "_", then "_",   *)
(* the e-mail value unchanged, then ".pdf".  Checked on the rows whose       *)
(* certificate is saved.                                                   *)
(***************************************************************************)
C1_FilenameSanitized ==
    RowDone =>
        LET person_name == PersonName(field_values, "full_name", index)
            name_part == [i \in 1..Len(person_name) |->
                            IF IsAlnum(person_name[i]) THEN person_name[i] ELSE "_"]
        IN output_path = <<CertificateFolder, "/">> \o name_part \o <<"_">> \o field_values["email"] \o <<".pdf">>

(***************************************************************************)
(* C2.  In normal mode, when `date` is configured and its mapped column is *)
(* absent from the spreadsheet or holds a null cell, the resolved date is  *)
(* today's date as "Month Day Year"; it is never empty and never missing.  *)
(* Checked on the rows whose certificate is saved.                         *)
(***************************************************************************)
C2_DateFallsBackToToday ==
    (/\ RowDone
     /\ "date" \in ConfiguredFields
     /\ "date" \in DOMAIN ConfiguredMappings
     /\ (~DateColumnPresent \/ LastDateCell = NaN)) =>
        /\ "date" \in DOMAIN field_values
        /\ field_values["date"] = <<MonthName[today.month], " ">> \o Pad2(today.day) \o <<" ">> \o IntStr(today.year)

(***************************************************************************)
(* C3.  In normal mode, every non-empty cell of the column mapped to       *)
(* `date`, typed date or text, resolves to full month name, day, comma,    *)
(* four-digit year, period.  Checked on the rows whose certificate is      *)
(* saved.                                                                  *)
(***************************************************************************)
C3_DateFormatted ==
    (RowDone /\ DateColumnPresent /\ LastDateCell # NaN) =>
        /\ "date" \in DOMAIN field_values
        /\ IsLongDate(field_values["date"])

\* C3 as amended: the long form holds for a typed date and for a text that
\* parses as a date; a text that does not parse is resolved as it stands.
C3_DateFormattedWhenParsed ==
    (RowTaken /\ DateColumnPresent /\ LastDateCell # NaN) =>
        /\ "date" \in DOMAIN field_values
        /\ LastDateCell.type = "ts" =>
              /\ IsLongDate(field_values["date"])
              /\ LongDateNames(field_values["date"], LastDateCell.d)
        /\ (LastDateCell.type = "str" /\ IsIsoDate(LastDateCell.s)) =>
              /\ IsLongDate(field_values["date"])
              /\ field_values["date"][1] = MonthName[Num(SubSeq(LastDateCell.s, 6, 7))]
        /\ (LastDateCell.type = "str" /\ ~IsIsoDate(LastDateCell.s)) =>
              field_values["date"] = LastDateCell.s

C3_Witness ==
    /\ RowTaken /\ DateColumnPresent
    /\ LastDateCell.type = "ts"
    /\ "date" \in DOMAIN field_values
    /\ IsLongDate(field_values["date"])
    /\ pos > 1
    /\ df.rows[1][ConfiguredMappings["date"]] = StrCell(<<"t", "b", "d">>)

(***************************************************************************)
(* C4.  In add_text_overlay the failure of a rendering attempt never       *)
(* leaves the call: the field is skipped, the remaining fields are         *)
(* processed and the document is saved.                                    *)
(***************************************************************************)
C4_AttemptFailureNeverPropagates ==
    (pc = "returned" /\ \E i \in DOMAIN attempts : ~attempts[i].ok) =>
        /\ error \in {"", "SaveError"}
        /\ error = "" => output_path \in DOMAIN files
        /\ \A f \in FieldNamesOf(field_configs) :
              (f \in DOMAIN field_values /\ field_values[f] # <<>>) =>
                  \E i \in DOMAIN attempts : attempts[i].field = f

(***************************************************************************)
(* C5.  With test_mode true a run never reads the spreadsheet and writes   *)
(* exactly one file, <output_folder>/test_certificate.pdf, from the value  *)
(* "Test <field name>" of every configured field and today's date for      *)
(* `date`; with test_mode false or absent the test certificate is never    *)
(* written.                                                                *)
(***************************************************************************)
TestCertificate == <<CertificateFolder, "/", "test_certificate.pdf">>

ExpectedTestValues ==
    [f \in ConfiguredFields |->
        IF f = "date"
        THEN <<MonthName[today.month], " ">> \o Pad2(today.day) \o <<",", " ">> \o IntStr(today.year)
        ELSE <<"Test", " ", f>>]

\* C5: in test mode the spreadsheet is never read and the one file written is the
\* test certificate, from the placeholder values; in normal mode it is never written.
C5_TestMode ==
    /\ ConfiguredTestMode =>
          /\ df = NoTable
          /\ ~Printed("Successfully read Excel file") /\ ~Printed("Error reading Excel file")
          /\ DOMAIN files \subseteq {TestCertificate}
          /\ (pc = "exited" /\ exitCode = 0) =>
                /\ DOMAIN files = {TestCertificate}
                /\ SavedPaths = <<TestCertificate>>
                /\ field_values = ExpectedTestValues
                /\ Len(files[TestCertificate]) = Len(field_configs)
                /\ \A i \in DOMAIN field_configs :
                      files[TestCertificate][i].text = ExpectedTestValues[field_configs[i].name]
    /\ ConfiguredNormalMode =>
          /\ ~Printed("Running in test mode with placeholder data")
          /\ ~Printed("Test certificate created at")
          /\ TestCertificate \notin DOMAIN files

C5_Witness ==
    /\ ConfiguredTestMode
    /\ pc = "exited" /\ exitCode = 0
    /\ "date" \in ConfiguredFields
    /\ TestCertificate \in DOMAIN files
    /\ excelFile.readable /\ Len(excelFile.table.rows) > 0

(***************************************************************************)
(* C6.  In normal mode N rows with pairwise distinct (name, e-mail) pairs  *)
(* produce N files with pairwise distinct filenames once the batch         *)
(* completes.                                                              *)
(***************************************************************************)
BatchCompleted == ConfiguredNormalMode /\ pc = "exited" /\ Printed("Completed processing")

PairsDistinct ==
    \A i, j \in DOMAIN df.rows :
        (df.rows[i]["Name"] = df.rows[j]["Name"] /\ df.rows[i]["Email"] = df.rows[j]["Email"]) => i = j

OneFilePerRow ==
    /\ Cardinality(DOMAIN files) = Len(df.rows)
    /\ Len(SavedPaths) = Len(df.rows)
    /\ \A i, j \in DOMAIN SavedPaths : SavedPaths[i] = SavedPaths[j] => i = j

PlainNames ==
    \A i \in DOMAIN df.rows :
        /\ df.rows[i]["Name"].type = "str"
        /\ df.rows[i]["Name"].s # <<>>
        /\ "_" \notin Range(df.rows[i]["Name"].s)

RunCompleted == Printed("Completed processing") \/ Printed("Test certificate created at")

\* C7: an unusable configuration or an unreadable spreadsheet ends the run with
\* status 1 and no certificate; a completed run ends with status 0.
C7_FatalErrorsExitOne ==
    /\ (~ConfigIsMapping \/ (ConfiguredNormalMode /\ ~excelFile.readable)) =>
          /\ files = <<>>
          /\ ~Printed("Saved modified PDF to")
          /\ pc \in {"start", "loaded", "exited"}
          /\ pc = "exited" => exitCode = 1
    /\ RunCompleted => (pc = "exited" /\ exitCode = 0)

C7_Witness ==
    /\ ConfiguredNormalMode /\ ~excelFile.readable /\ templateOK
    /\ pc = "exited" /\ exitCode = 1
    /\ Printed("Error reading Excel file")

(***************************************************************************)
(* C8.  In add_text_overlay a field that is configured but has no value or *)
(* an empty one, and a field that has a value but is not configured,       *)
(* gets no rendering attempt and raises no error; the other fields are     *)
(* rendered as usual.                                                      *)
(***************************************************************************)
Unconfigured(f) == f \in DOMAIN field_values /\ f \notin FieldNamesOf(field_configs)
Valueless(f) == f \in FieldNamesOf(field_configs) /\ (f \notin DOMAIN field_values \/ field_values[f] = <<>>)
Renderable(f) == f \in FieldNamesOf(field_configs) /\ f \in DOMAIN field_values /\ field_values[f] # <<>>

\* C8: a field without value or without configuration gets no attempt and no error;
\* the other fields are stamped once.
C8_SkippedFieldsLeaveNoOverlay ==
    (pc = "returned" /\ templateOK) =>
        /\ \A f \in FieldNames :
              (Unconfigured(f) \/ Valueless(f)) => \A i \in DOMAIN attempts : attempts[i].field # f
        /\ (\A f \in FieldNames : ~Renderable(f)) => error \in {"", "SaveError"}
        /\ error = "" =>
              \A f \in FieldNames :
                  Renderable(f) => Cardinality({i \in DOMAIN files[output_path] : files[output_path][i].field = f}) = 1

C8_Witness ==
    /\ pc = "returned" /\ error = ""
    /\ \E f, g, h \in FieldNames :
          /\ Valueless(f) /\ f \in DOMAIN field_values
          /\ Unconfigured(g) /\ field_values[g] # <<>>
          /\ Renderable(h)
          /\ \E i \in DOMAIN files[output_path] : files[output_path][i].field = h

(***************************************************************************)
(* C9.  For every field add_text_overlay tries the strategies in the order *)
(* composite, direct font-file insert, default font: the direct insert     *)
(* only after the composite failed, the default font only without a usable *)
(* custom font or after every custom attempt failed, nothing after a       *)
(* success; the text is stamped at most once.                              *)
(***************************************************************************)
AttemptsOn(f) == {i \in DOMAIN attempts : attempts[i].field = f}

UsableFont(f) == \E i \in DOMAIN field_configs :
    /\ field_configs[i].name = f
    /\ field_configs[i].config.font \in {"custom.ttf"}

\* C9: composite, then direct insert, then default font; nothing after a success.
C9_StrategyOrder ==
    pc = "returned" =>
        \A f \in FieldNames :
            /\ \A i \in AttemptsOn(f) :
                  /\ attempts[i].method = "reportlab" =>
                        /\ UsableFont(f)
                        /\ \A j \in AttemptsOn(f) : j >= i
                  /\ attempts[i].method = "fontfile" =>
                        /\ UsableFont(f)
                        /\ i - 1 \in AttemptsOn(f)
                        /\ attempts[i - 1].method = "reportlab" /\ ~attempts[i - 1].ok
                  /\ attempts[i].method = "default" =>
                        \/ ~UsableFont(f) /\ \A j \in AttemptsOn(f) : j = i
                        \/ /\ UsableFont(f)
                           /\ {i - 2, i - 1} \subseteq AttemptsOn(f)
                           /\ attempts[i - 2].method = "reportlab" /\ ~attempts[i - 2].ok
                           /\ attempts[i - 1].method = "fontfile" /\ ~attempts[i - 1].ok
                  /\ attempts[i].ok => \A j \in AttemptsOn(f) : j <= i
            /\ Cardinality({i \in AttemptsOn(f) : attempts[i].ok}) <= 1
            /\ (UsableFont(f) /\ AttemptsOn(f) # {}) =>
                  \E i \in AttemptsOn(f) : attempts[i].method = "reportlab"

C9_Witness ==
    /\ pc = "returned" /\ error = ""
    /\ \E f, g \in FieldNames :
          /\ \E i \in AttemptsOn(f) :
                /\ attempts[i].method = "default" /\ attempts[i].ok
                /\ i - 1 \in AttemptsOn(f)
                /\ attempts[i - 1].method = "fontfile" /\ ~attempts[i - 1].ok
          /\ \E i \in AttemptsOn(g) :
                /\ attempts[i].method = "reportlab" /\ attempts[i].ok
                /\ Cardinality(AttemptsOn(g)) = 1

(***************************************************************************)
(* C10.  In normal mode the rows are processed in spreadsheet order with   *)
(* no exception boundary: a row without a resolved `email`, or a row for   *)
(* which the renderer raises, aborts the batch; the certificates of the    *)
(* earlier rows remain and none is written for that row or a later one.    *)
(***************************************************************************)
RendererRaised == \/ \E i \in DOMAIN attempts : attempts[i].method = "default" /\ ~attempts[i].ok
                  \/ error \in {"OpenError", "InsertTextError", "SaveError"}

\* C10: rows in order; a row without e-mail or a renderer exception ends the batch
\* with the earlier certificates saved and no later one.
C10_BatchAbortsAtFailingRow ==
    RowTaken =>
        LET aborted == "email" \notin DOMAIN field_values \/ RendererRaised
            written == IF aborted THEN pos - 1 ELSE pos
        IN /\ index = pos - 1
           /\ field_values = ResolveFields(LastRow, ConfiguredMappings, field_configs,
                                           Strftime(today, FmtToday))
           /\ aborted => (pc = "exited" /\ exitCode = 1 /\ error # "")
           /\ "email" \notin DOMAIN field_values => error = "KeyError"
           /\ Len(SavedPaths) = written
           /\ written > 0 => DOMAIN files = Range(SavedPaths)
           /\ written = 0 => files = <<>>
           /\ \A i \in 1..written :
                 /\ "Email" \in DOMAIN df.rows[i]
                 /\ SavedPaths[i] = <<CertificateFolder, "/">> \o PyStr(df.rows[i]["Name"])
                                     \o <<"_">> \o PyStr(df.rows[i]["Email"]) \o <<".pdf">>

C10_Witness ==
    /\ RowTaken
    /\ error = "InsertTextError"
    /\ pos = 2 /\ Len(df.rows) = 3
    /\ Len(SavedPaths) = 1
    /\ DOMAIN files = Range(SavedPaths)

====
